---------------------------- MODULE Spec2Model ----------------------------
(***************************************************************************)
(* Model of ppsci/data/process/transform/preprocess.py: the transforms     *)
(* Translate, Scale, Normalize, Log1p, CropData, SqueezeData and           *)
(* FunctionalTransform, applied to a sample of three mappings              *)
(* (input, label, weight) from variable names to tensors.                  *)
(*                                                                         *)
(* Python objects have identity, so the model keeps a heap:                *)
(*   bufs   memory buffers of numpy arrays (a view shares its base's one), *)
(*   arrs   tensor objects: kind, shape, buffer and the buffer positions   *)
(*          of their elements in row-major order,                          *)
(*   dicts  mapping objects: a function from keys to tensor references.    *)
(* A reference is an index into the sequence; allocation appends.          *)
(*                                                                         *)
(* Floating point numbers are modelled in fixed point with three decimals  *)
(* (1.0 is Unit), with the IEEE special values nan, -inf and +inf.         *)
(***************************************************************************)
EXTENDS Integers, Sequences, FiniteSets, TLC

VARIABLES bufs, arrs, dicts, sample, cur, tf, ctor, call

vars == <<bufs, arrs, dicts, sample, cur, tf, ctor, call>>

(***************************************************************************)
(* Bounds of the model.                                                    *)
(***************************************************************************)
\* Number of apply calls in one behaviour.
MaxCalls == 2
\* Number of constructor calls in one behaviour.
MaxCtors == 2
\* Largest crop corner coordinate (tensors have H, W <= 2, so 3 is beyond).
MaxCorner == 3
\* Longest apply_keys tuple handed to a constructor.
MaxApplyKeys == 2

(***************************************************************************)
(* Floating point arithmetic, in fixed point.                              *)
(***************************************************************************)
Unit == 10 * 10 * 10
PosInf == Unit * Unit * Unit
NegInf == 0 - PosInf
NaN == NegInf - 1

IsFinite(a) == a # NaN /\ a # NegInf /\ a # PosInf

Abs(a) == IF a < 0 THEN 0 - a ELSE a
Sign(a) == IF a < 0 THEN 0 - 1 ELSE IF a > 0 THEN 1 ELSE 0

\* n / d rounded to the nearest integer, d > 0.
RoundDiv(n, d) == (2 * n + d) \div (2 * d)

\* a + c, c finite.
FAdd(a, c) == IF IsFinite(a) THEN a + c ELSE a

\* a * c, c finite.
FMul(a, c) ==
    IF a = NaN THEN NaN
    ELSE IF IsFinite(a) THEN Sign(a * c) * RoundDiv(Abs(a * c), Unit)
    ELSE IF c = 0 THEN NaN
    ELSE IF Sign(c) = Sign(a) THEN PosInf ELSE NegInf

\* a / c, c finite (numpy: x/0 is +-inf, 0/0 is nan).
FDiv(a, c) ==
    IF a = NaN THEN NaN
    ELSE IF c = 0 THEN (IF a = 0 THEN NaN ELSE IF a > 0 THEN PosInf ELSE NegInf)
    ELSE IF IsFinite(a) THEN Sign(a) * Sign(c) * RoundDiv(Abs(a) * Unit, Abs(c))
    ELSE IF Sign(c) = Sign(a) THEN PosInf ELSE NegInf

\* ln(m) for m > 0 given with four decimals, result with four decimals:
\* m = r * 2^k with 1 <= r < 2, ln(m) = k ln(2) + 2 atanh((r-1)/(r+1)).
RECURSIVE LnFine(_)
LnFine(m) ==
    LET M == 10 * Unit IN
    IF m >= 2 * M THEN LnFine(m \div 2) + 6931
    ELSE IF m < M THEN LnFine(m * 2) - 6931
    ELSE LET y  == ((m - M) * M) \div (m + M)
             y2 == (y * y) \div M
             t3 == (y * y2) \div M
             t5 == (t3 * y2) \div M
             t7 == (t5 * y2) \div M
         IN 2 * (y + t3 \div 3 + t5 \div 5 + t7 \div 7)

\* numpy.log1p: nan below -1, -inf at -1.
FLog1p(a) ==
    IF a = NaN \/ a = NegInf THEN NaN
    ELSE IF a = PosInf THEN PosInf
    ELSE IF a < 0 - Unit THEN NaN
    ELSE IF a = 0 - Unit THEN NegInf
    ELSE LET l == LnFine((Unit + a) * 10)
         IN Sign(l) * RoundDiv(Abs(l), 10)
\* (value - self.mean) / self.std, for one element.
NormalizeValue(v, mean, std) == FDiv(FAdd(v, 0 - mean), std)

\* np.log1p(value / self.scale), for one element.
Log1pValue(v, scale) == FLog1p(FDiv(v, scale))

\* An elementwise operation on one element: <<"add", c>>, <<"mul", c>>,
\* <<"normalize", mean, std>> or <<"log1p", scale>>.
ElementOp(op, v) ==
    CASE op[1] = "add"       -> FAdd(v, op[2])
      [] op[1] = "mul"       -> FMul(v, op[2])
      [] op[1] = "normalize" -> NormalizeValue(v, op[2], op[3])
      [] op[1] = "log1p"     -> Log1pValue(v, op[2])

(***************************************************************************)
(* The heap: h = [bufs, arrs, dicts].                                      *)
(***************************************************************************)
EmptyHeap == [bufs |-> <<>>, arrs |-> <<>>, dicts |-> <<>>]

Range(s) == {s[i] : i \in DOMAIN s}
Iota(n) == [i \in 1..n |-> i]

RECURSIVE Prod(_)
Prod(s) == IF s = <<>> THEN 1 ELSE Head(s) * Prod(Tail(s))

\* A new tensor object owning a new buffer. kind is "scalar" (a numpy scalar
\* such as np.float64: immutable, ndim 0) or "ndarray" (mutable).
NewArr(h, kind, shape, data) ==
    [h EXCEPT !.bufs = Append(@, data),
              !.arrs = Append(@, [kind |-> kind, shape |-> shape,
                                  buf |-> Len(h.bufs) + 1,
                                  idx |-> Iota(Len(data))])]

\* A new array object that is a view: it shares the buffer of its base.
NewView(h, base, shape, idx) ==
    [h EXCEPT !.arrs = Append(@, [kind |-> "ndarray", shape |-> shape,
                                  buf |-> h.arrs[base].buf, idx |-> idx])]

LastArr(h) == Len(h.arrs)

\* A new mapping object with contents m.
NewDict(h, m) == [h EXCEPT !.dicts = Append(@, m)]
LastDict(h) == Len(h.dicts)

\* d[key] = ref on the mapping object d.
DictSet(h, d, key, ref) ==
    [h EXCEPT !.dicts[d] = [k \in DOMAIN @ \cup {key} |->
                               IF k = key THEN ref ELSE @[k]]]

Ndim(h, r) == Len(h.arrs[r].shape)

\* The elements of tensor r in row-major order.
Data(h, r) ==
    LET a == h.arrs[r] IN [i \in 1..Len(a.idx) |-> h.bufs[a.buf][a.idx[i]]]

\* The contents of a tensor: what numpy.array_equal compares.
Val(h, r) == [shape |-> h.arrs[r].shape, data |-> Data(h, r)]

\* The contents of a mapping, by value; d = 0 is None.
DeepDict(h, d) ==
    IF d = 0 THEN [none |-> TRUE, m |-> <<>>]
    ELSE [none |-> FALSE,
          m |-> [k \in DOMAIN h.dicts[d] |-> Val(h, h.dicts[d][k])]]

Deep(h, t) == <<DeepDict(h, t[1]), DeepDict(h, t[2]), DeepDict(h, t[3])>>

\* The key set of a mapping; None has none.
Keys(h, d) == IF d = 0 THEN {} ELSE DOMAIN h.dicts[d]
KeySets(h, t) == <<Keys(h, t[1]), Keys(h, t[2]), Keys(h, t[3])>>

\* {**d}: a shallow copy, a new mapping object bound to the same tensors.
DictCopy(h, d) == NewDict(h, h.dicts[d])

\* value <op> c for an elementwise operation: numpy returns a new array (or
\* a new scalar), the operand is not written.
ElementwiseNew(h, r, op) ==
    NewArr(h, h.arrs[r].kind, h.arrs[r].shape,
           [i \in 1..Len(h.arrs[r].idx) |-> ElementOp(op, Data(h, r)[i])])

\* value <op>= c: ndarray.__iadd__ / __imul__ write the array's own memory and
\* return the same object; a scalar has no in-place operator, so Python falls
\* back to value = value <op> c, a new object. The result is [h, ref].
ElementwiseInPlace(h, r, op) ==
    IF h.arrs[r].kind = "ndarray"
    THEN [h |-> [h EXCEPT !.bufs[h.arrs[r].buf] =
                    [j \in DOMAIN @ |->
                        IF j \in Range(h.arrs[r].idx)
                        THEN ElementOp(op, @[j]) ELSE @[j]]],
          ref |-> r]
    ELSE [h |-> ElementwiseNew(h, r, op), ref |-> Len(h.arrs) + 1]

(***************************************************************************)
(* Transform objects. One record shape for every class; a class uses the   *)
(* fields its __init__ sets.                                               *)
(***************************************************************************)
NoDict == [k \in {} |-> 0]

NoTf == [kind |-> "none", id |-> 0, offset |-> NoDict, scale |-> NoDict,
         mean |-> 0, std |-> 0, lscale |-> 0, xmin |-> <<0, 0>>,
         xmax |-> <<0, 0>>, apply_keys |-> <<>>, fn |-> "none"]

\* What a call hands back to the model: the heap after it, how it ended, the
\* three references it returned, and (FunctionalTransform only) the three
\* mapping objects the wrapped function was given with their bindings (key to
\* tensor object) on entry.
NoDeep == Deep(EmptyHeap, <<0, 0, 0>>)
NoFnRaw == <<NoDict, NoDict, NoDict>>

Outcome(h, status, ret) ==
    [h |-> h, status |-> status,
     ret |-> IF status = "ok" THEN ret ELSE <<0, 0, 0>>,
     fnargs |-> <<0, 0, 0>>, fnraw |-> NoFnRaw]

(***************************************************************************)
(* Translate                                                               *)
(***************************************************************************)
\* Translate.__init__
TranslateInit(offset) == [NoTf EXCEPT !.kind = "Translate", !.offset = offset]

\* (Faulty variant: a key of self.offset that input_dict lacks is added to the
\* copy, bound to the offset.)
RECURSIVE TranslateLoopAdding(_, _, _, _, _)
TranslateLoopAdding(h, cp, input_dict, offset, todo) ==
    IF todo = {} THEN h
    ELSE LET key == CHOOSE k \in todo : TRUE
             Add == <<"add", offset[key]>>
         IN IF key \in DOMAIN h.dicts[input_dict]
            THEN LET r == ElementwiseInPlace(h, h.dicts[cp][key], Add)
                 IN TranslateLoopAdding(DictSet(r.h, cp, key, r.ref), cp,
                                        input_dict, offset, todo \ {key})
            ELSE LET h1 == NewArr(h, "scalar", <<>>, <<offset[key]>>)
                 IN TranslateLoopAdding(DictSet(h1, cp, key, LastArr(h1)),
                                        cp, input_dict, offset, todo \ {key})

\* The loop of Translate.__call__ over the keys of self.offset still to do;
\* cp is the copy. Addition commutes, so the order of the keys is immaterial.
RECURSIVE TranslateLoop(_, _, _, _, _)
TranslateLoop(h, cp, input_dict, offset, todo) ==
    IF todo = {} THEN h
    ELSE LET key == CHOOSE k \in todo : TRUE
             Add == <<"add", offset[key]>>
         IN IF key \in DOMAIN h.dicts[input_dict]
            THEN LET r == ElementwiseInPlace(h, h.dicts[cp][key], Add)
                 IN TranslateLoop(DictSet(r.h, cp, key, r.ref), cp,
                                  input_dict, offset, todo \ {key})
            ELSE TranslateLoop(h, cp, input_dict, offset, todo \ {key})

\* Translate.__call__: [h, status, ret, fnargs].
TranslateCall(h, self, a) ==
    LET h1 == DictCopy(h, a[1])
        cp == LastDict(h1)
        h2 == TranslateLoop(h1, cp, a[1], self.offset, DOMAIN self.offset)
    IN Outcome(h2, "ok", <<cp, a[2], a[3]>>)

(***************************************************************************)
(* Scale                                                                   *)
(***************************************************************************)
\* Scale.__init__
ScaleInit(scale) == [NoTf EXCEPT !.kind = "Scale", !.scale = scale]

RECURSIVE ScaleLoop(_, _, _, _, _)
ScaleLoop(h, cp, input_dict, scale, todo) ==
    IF todo = {} THEN h
    ELSE LET key == CHOOSE k \in todo : TRUE
             Mul == <<"mul", scale[key]>>
         IN IF key \in DOMAIN h.dicts[input_dict]
            THEN LET r == ElementwiseInPlace(h, h.dicts[cp][key], Mul)
                 IN ScaleLoop(DictSet(r.h, cp, key, r.ref), cp,
                              input_dict, scale, todo \ {key})
            ELSE ScaleLoop(h, cp, input_dict, scale, todo \ {key})

\* Scale.__call__
ScaleCall(h, self, a) ==
    LET h1 == DictCopy(h, a[1])
        cp == LastDict(h1)
        h2 == ScaleLoop(h1, cp, a[1], self.scale, DOMAIN self.scale)
    IN Outcome(h2, "ok", <<cp, a[2], a[3]>>)

(***************************************************************************)
(* Construction-time validation of apply_keys                              *)
(***************************************************************************)
\* (Faulty variant: the names are not united with {"input", "label"}.)
ApplyKeysInvalidNoUnion(apply_keys) ==
    \/ Len(apply_keys) = 0
    \/ Cardinality(Range(apply_keys)) > 2

\* len(apply_keys) == 0 or len(set(apply_keys) | {"input", "label"}) > 2
ApplyKeysInvalid(apply_keys) ==
    \/ Len(apply_keys) = 0
    \/ Cardinality(Range(apply_keys) \cup {"input", "label"}) > 2

\* What a constructor that raises leaves behind: no object.
Raised(error) == [NoTf EXCEPT !.kind = error]

\* (Faulty variant: only the first element of apply_keys is looked at.)
SelectedFirst(name, apply_keys) == name = apply_keys[1]

\* "input" in self.apply_keys
Selected(name, apply_keys) == name \in Range(apply_keys)

(***************************************************************************)
(* Normalize (mean and std are scalars here)                               *)
(***************************************************************************)
\* Normalize.__init__
NormalizeInit(mean, std, apply_keys) ==
    IF ApplyKeysInvalid(apply_keys) THEN Raised("ValueError")
    ELSE [NoTf EXCEPT !.kind = "Normalize", !.mean = mean, !.std = std,
                      !.apply_keys = apply_keys]

\* for key, value in item_copy.items():
\*     item_copy[key] = (value - self.mean) / self.std
\* todo are the keys still to do; every value is replaced by a new tensor.
RECURSIVE NormalizeLoop(_, _, _, _, _)
NormalizeLoop(h, cp, todo, mean, std) ==
    IF todo = {} THEN h
    ELSE LET key == CHOOSE k \in todo : TRUE
             h1  == ElementwiseNew(h, h.dicts[cp][key],
                                   <<"normalize", mean, std>>)
         IN NormalizeLoop(DictSet(h1, cp, key, LastArr(h1)), cp,
                          todo \ {key}, mean, std)

\* Normalize.__call__
NormalizeCall(h, self, a) ==
    LET h1 == DictCopy(h, a[1])
        ic == LastDict(h1)
        h2 == DictCopy(h1, a[2])
        lc == LastDict(h2)
        h3 == IF Selected("input", self.apply_keys)
              THEN NormalizeLoop(h2, ic, DOMAIN h2.dicts[ic],
                                 self.mean, self.std)
              ELSE h2
        h4 == IF Selected("label", self.apply_keys)
              THEN NormalizeLoop(h3, lc, DOMAIN h3.dicts[lc],
                                 self.mean, self.std)
              ELSE h3
    IN Outcome(h4, "ok", <<ic, lc, a[3]>>)

(***************************************************************************)
(* Log1p                                                                   *)
(***************************************************************************)
\* Log1p.__init__
Log1pInit(scale, apply_keys) ==
    IF ApplyKeysInvalid(apply_keys) THEN Raised("ValueError")
    ELSE [NoTf EXCEPT !.kind = "Log1p", !.lscale = scale,
                      !.apply_keys = apply_keys]

\* for key, value in item_copy.items():
\*     item_copy[key] = np.log1p(value / self.scale)
RECURSIVE Log1pLoop(_, _, _, _)
Log1pLoop(h, cp, todo, scale) ==
    IF todo = {} THEN h
    ELSE LET key == CHOOSE k \in todo : TRUE
             h1  == ElementwiseNew(h, h.dicts[cp][key], <<"log1p", scale>>)
         IN Log1pLoop(DictSet(h1, cp, key, LastArr(h1)), cp,
                      todo \ {key}, scale)

\* Log1p.__call__
Log1pCall(h, self, a) ==
    LET h1 == DictCopy(h, a[1])
        ic == LastDict(h1)
        h2 == DictCopy(h1, a[2])
        lc == LastDict(h2)
        h3 == IF Selected("input", self.apply_keys)
              THEN Log1pLoop(h2, ic, DOMAIN h2.dicts[ic], self.lscale)
              ELSE h2
        h4 == IF Selected("label", self.apply_keys)
              THEN Log1pLoop(h3, lc, DOMAIN h3.dicts[lc], self.lscale)
              ELSE h3
    IN Outcome(h4, "ok", <<ic, lc, a[3]>>)

(***************************************************************************)
(* CropData                                                                *)
(***************************************************************************)
\* CropData.__init__
CropDataInit(xmin, xmax, apply_keys) ==
    IF ApplyKeysInvalid(apply_keys) THEN Raised("ValueError")
    ELSE [NoTf EXCEPT !.kind = "CropData", !.xmin = xmin, !.xmax = xmax,
                      !.apply_keys = apply_keys]

Min(a, b) == IF a < b THEN a ELSE b
Max(a, b) == IF a > b THEN a ELSE b

\* A slice bound on an axis of length n: a negative bound counts from the
\* end, and the result is clamped to 0..n.
SliceBound(n, b) == IF b < 0 THEN Max(0, b + n) ELSE Min(b, n)

\* (Faulty variant: the slice keeps its length but starts at 0.)
SliceIdxFromZero(n, a, b) ==
    [i \in 1..Max(0, SliceBound(n, b) - SliceBound(n, a)) |-> i]

\* The positions (from 1) that the slice a:b selects on an axis of length n.
SliceIdx(n, a, b) ==
    LET lo == SliceBound(n, a)
        hi == SliceBound(n, b)
    IN [i \in 1..Max(0, hi - lo) |-> lo + i]

\* value[:, x0:x1, y0:y1] of an array of rank >= 3: the shape and, for each
\* element of the result in row-major order, its position in value.
CropShape(s, xmin, xmax) ==
    <<s[1], Len(SliceIdx(s[2], xmin[1], xmax[1])),
            Len(SliceIdx(s[3], xmin[2], xmax[2]))>> \o SubSeq(s, 4, Len(s))

\* The position in value of element q (from 1, row-major) of the result; xs
\* and ys are the selected rows and columns, T the size of the axes after
\* the third.
CropPos(s, xs, ys, T, q) ==
    (((((q - 1) \div (T * Len(ys) * Len(xs))) * s[2]
       + (xs[(((q - 1) \div (T * Len(ys))) % Len(xs)) + 1] - 1)) * s[3]
      + (ys[(((q - 1) \div T) % Len(ys)) + 1] - 1)) * T)
    + ((q - 1) % T) + 1

CropPositionsOf(s, xs, ys, T) ==
    [q \in 1..(s[1] * Len(xs) * Len(ys) * T) |-> CropPos(s, xs, ys, T, q)]

CropPositions(s, xmin, xmax) ==
    CropPositionsOf(s, SliceIdx(s[2], xmin[1], xmax[1]),
                    SliceIdx(s[3], xmin[2], xmax[2]),
                    Prod(SubSeq(s, 4, Len(s))))

\* One item of the crop loop: basic slicing returns a view of value's memory;
\* indexing fewer than three axes (a scalar too) with three indices is
\* numpy's IndexError.
CropItem(h, cp, key, xmin, xmax) ==
    LET r == h.dicts[cp][key]
        a == h.arrs[r]
    IN IF a.kind # "ndarray" \/ Len(a.shape) < 3
       THEN [h |-> h, status |-> "IndexError"]
       ELSE LET pos == CropPositions(a.shape, xmin, xmax)
                h1  == NewView(h, r, CropShape(a.shape, xmin, xmax),
                               [q \in DOMAIN pos |-> a.idx[pos[q]]])
            IN [h |-> DictSet(h1, cp, key, LastArr(h1)), status |-> "ok"]

RECURSIVE CropLoop(_, _, _, _, _)
CropLoop(h, cp, todo, xmin, xmax) ==
    IF todo = {} THEN [h |-> h, status |-> "ok"]
    ELSE LET key == CHOOSE k \in todo : TRUE
             r   == CropItem(h, cp, key, xmin, xmax)
         IN IF r.status # "ok" THEN r
            ELSE CropLoop(r.h, cp, todo \ {key}, xmin, xmax)

\* CropData.__call__
CropDataCall(h, self, a) ==
    LET h1 == DictCopy(h, a[1])
        ic == LastDict(h1)
        h2 == DictCopy(h1, a[2])
        lc == LastDict(h2)
        r1 == IF Selected("input", self.apply_keys)
              THEN CropLoop(h2, ic, DOMAIN h2.dicts[ic], self.xmin, self.xmax)
              ELSE [h |-> h2, status |-> "ok"]
        r2 == IF r1.status = "ok" /\ Selected("label", self.apply_keys)
              THEN CropLoop(r1.h, lc, DOMAIN r1.h.dicts[lc],
                            self.xmin, self.xmax)
              ELSE r1
    IN Outcome(r2.h, r2.status, <<ic, lc, a[3]>>)

(***************************************************************************)
(* SqueezeData                                                             *)
(***************************************************************************)
\* SqueezeData.__init__
SqueezeDataInit(apply_keys) ==
    IF ApplyKeysInvalid(apply_keys) THEN Raised("ValueError")
    ELSE [NoTf EXCEPT !.kind = "SqueezeData", !.apply_keys = apply_keys]

\* value.reshape((B * C, H, W)): a view when value's memory is contiguous,
\* a copy otherwise.
Contiguous(idx) == \A i \in 1..(Len(idx) - 1) : idx[i + 1] = idx[i] + 1

Reshape(h, r, shape) ==
    IF Contiguous(h.arrs[r].idx) THEN NewView(h, r, shape, h.arrs[r].idx)
    ELSE NewArr(h, "ndarray", shape, Data(h, r))

\* (Faulty variant: only ranks above 3 are rejected.)
SqueezeRaisesAbove3(h, value) == Ndim(h, value) > 3

\* if value.ndim != 3: raise ValueError. value is the loop variable, the
\* tensor the copy held when the iteration began: binding the reshaped
\* tensor to item_copy[key] does not rebind value.
SqueezeRaises(h, value) == Ndim(h, value) # 3

\* One item of the squeeze loop.
SqueezeItem(h, cp, key) ==
    LET value == h.dicts[cp][key]
        s     == h.arrs[value].shape
        h1    == IF Ndim(h, value) = 4
                 THEN LET hr == Reshape(h, value, <<s[1] * s[2], s[3], s[4]>>)
                      IN DictSet(hr, cp, key, LastArr(hr))
                 ELSE h
    IN [h |-> h1,
        status |-> IF SqueezeRaises(h1, value) THEN "ValueError" ELSE "ok"]

RECURSIVE SqueezeLoop(_, _, _)
SqueezeLoop(h, cp, todo) ==
    IF todo = {} THEN [h |-> h, status |-> "ok"]
    ELSE LET key == CHOOSE k \in todo : TRUE
             r   == SqueezeItem(h, cp, key)
         IN IF r.status # "ok" THEN r
            ELSE SqueezeLoop(r.h, cp, todo \ {key})

\* SqueezeData.__call__
SqueezeDataCall(h, self, a) ==
    LET h1 == DictCopy(h, a[1])
        ic == LastDict(h1)
        h2 == DictCopy(h1, a[2])
        lc == LastDict(h2)
        r1 == IF Selected("input", self.apply_keys)
              THEN SqueezeLoop(h2, ic, DOMAIN h2.dicts[ic])
              ELSE [h |-> h2, status |-> "ok"]
        r2 == IF r1.status = "ok" /\ Selected("label", self.apply_keys)
              THEN SqueezeLoop(r1.h, lc, DOMAIN r1.h.dicts[lc])
              ELSE r1
    IN Outcome(r2.h, r2.status, <<ic, lc, a[3]>>)

(***************************************************************************)
(* FunctionalTransform                                                     *)
(***************************************************************************)
\* FunctionalTransform.__init__
FunctionalTransformInit(fn) == [NoTf EXCEPT !.kind = "FunctionalTransform",
                                            !.fn = fn]

\* The wrapped functions of the model. Each only rebinds, adds or removes
\* keys of the mappings it is given:
\*   identity  returns its arguments,
\*   rebind    data_dict[key] = data_dict[key] * 0.5 for every key (the
\*             docstring's example with a fixed ratio),
\*   addkey    weight_dict["z"] = 1.0,
\*   clear     data_dict.clear(); label_dict.clear().
UserFns == {"identity", "rebind", "addkey", "clear"}

RECURSIVE RebindLoop(_, _, _)
RebindLoop(h, d, todo) ==
    IF todo = {} THEN h
    ELSE LET key == CHOOSE k \in todo : TRUE
             h1  == ElementwiseNew(h, h.dicts[d][key], <<"mul", Unit \div 2>>)
         IN RebindLoop(DictSet(h1, d, key, LastArr(h1)), d, todo \ {key})

UserFn(fn, h, d, l, w) ==
    CASE fn = "rebind" ->
           [h |-> RebindLoop(h, d, DOMAIN h.dicts[d]), ret |-> <<d, l, w>>]
      [] fn = "addkey" ->
           LET h1 == NewArr(h, "scalar", <<>>, <<Unit>>)
           IN [h |-> DictSet(h1, w, "z", LastArr(h1)), ret |-> <<d, l, w>>]
      [] fn = "clear" ->
           [h |-> [h EXCEPT !.dicts[d] = NoDict, !.dicts[l] = NoDict],
            ret |-> <<d, l, w>>]
      [] OTHER -> [h |-> h, ret |-> <<d, l, w>>]

\* (Faulty variant: the weights are handed on without a copy.)
WeightCopyAliased(h, w) ==
    IF w # 0 THEN [h |-> h, ref |-> w]
    ELSE [h |-> NewDict(h, NoDict), ref |-> Len(h.dicts) + 1]

\* {**weight_dict} if weight_dict is not None else {}: [h, ref].
WeightCopy(h, w) ==
    IF w # 0 THEN [h |-> DictCopy(h, w), ref |-> Len(h.dicts) + 1]
    ELSE [h |-> NewDict(h, NoDict), ref |-> Len(h.dicts) + 1]

\* FunctionalTransform.__call__
FunctionalTransformCall(h, self, a) ==
    LET h1 == DictCopy(h, a[1])
        dc == LastDict(h1)
        h2 == DictCopy(h1, a[2])
        lc == LastDict(h2)
        w3 == WeightCopy(h2, a[3])
        h3 == w3.h
        wc == w3.ref
        r  == UserFn(self.fn, h3, dc, lc, wc)
    IN [h |-> r.h, status |-> "ok", ret |-> r.ret,
        fnargs |-> <<dc, lc, wc>>,
        fnraw |-> <<h3.dicts[dc], h3.dicts[lc], h3.dicts[wc]>>]

(***************************************************************************)
(* The state machine: a caller that holds a sample, constructs transforms  *)
(* and applies the one it holds to its sample or to the previous output.   *)
(***************************************************************************)
Builtins == {"Translate", "Scale", "Normalize", "Log1p", "CropData",
             "SqueezeData"}

\* transform(input, label, weight): dispatch on the object's class.
CallOf(h, self, a) ==
    CASE self.kind = "Translate"   -> TranslateCall(h, self, a)
      [] self.kind = "Scale"       -> ScaleCall(h, self, a)
      [] self.kind = "Normalize"   -> NormalizeCall(h, self, a)
      [] self.kind = "Log1p"       -> Log1pCall(h, self, a)
      [] self.kind = "CropData"    -> CropDataCall(h, self, a)
      [] self.kind = "SqueezeData" -> SqueezeDataCall(h, self, a)
      [] OTHER                     -> FunctionalTransformCall(h, self, a)

Heap == [bufs |-> bufs, arrs |-> arrs, dicts |-> dicts]

\* The tensors a sample is built from, by shape: a scalar, and arrays of
\* rank 2, 3, 4 and 5. Element i (row-major, from 1) is the number i.0.
Shapes == {<<>>, <<1, 2>>, <<2, 2, 2>>, <<2, 3, 1, 1>>, <<1, 1, 1, 1, 1>>}

Tensor(h, shape) ==
    NewArr(h, IF shape = <<>> THEN "scalar" ELSE "ndarray", shape,
           [i \in 1..Prod(shape) |-> i * Unit])

\* Binds key to the tensor x when aliased, to a new tensor otherwise, in the
\* mapping under construction m: [h, m].
Bind(hm, present, key, aliased, x, shape) ==
    IF ~present THEN hm
    ELSE IF aliased THEN [h |-> hm.h, m |-> [k \in DOMAIN hm.m \cup {key} |->
                                       IF k = key THEN x ELSE hm.m[k]]]
    ELSE LET h1 == Tensor(hm.h, shape)
         IN [h |-> h1, m |-> [k \in DOMAIN hm.m \cup {key} |->
                                 IF k = key THEN LastArr(h1) ELSE hm.m[k]]]

\* The caller's sample: input {x} or {x, y}, label {} or {u}, weight None or
\* {w}. x has shape sx; each of y, u, w is either the very tensor object that
\* x is (when in alias) or a tensor of its own of shape so.
InitWith(shapesX, shapesO, aliases) ==
    \E sx \in shapesX, so \in shapesO, hasY \in BOOLEAN, hasU \in BOOLEAN,
       hasW \in BOOLEAN, alias \in aliases :
        LET h0 == Tensor(EmptyHeap, sx)
            i0 == [h |-> h0, m |-> [k \in {"x"} |-> 1]]
            i1 == Bind(i0, hasY, "y", "y" \in alias, 1, so)
            l1 == Bind([h |-> i1.h, m |-> NoDict], hasU, "u",
                       "u" \in alias, 1, so)
            w1 == Bind([h |-> l1.h, m |-> NoDict], hasW, "w",
                       "w" \in alias, 1, so)
            h1 == NewDict(NewDict(w1.h, i1.m), l1.m)
            h2 == IF hasW THEN NewDict(h1, w1.m) ELSE h1
        IN /\ ("y" \in alias => hasY) /\ ("u" \in alias => hasU)
           /\ ("w" \in alias => hasW)
           /\ bufs = h2.bufs /\ arrs = h2.arrs /\ dicts = h2.dicts
           /\ sample = <<1, 2, IF hasW THEN 3 ELSE 0>>
           /\ cur = sample
           /\ tf = NoTf
           /\ ctor = [n |-> 0, kind |-> "none", apply_keys |-> <<>>,
                      status |-> "none"]
           /\ call = [n |-> 0, tfid |-> 0, kind |-> "none",
                      args |-> <<0, 0, 0>>, pre |-> NoDeep,
                      status |-> "none", ret |-> <<0, 0, 0>>,
                      out |-> NoDeep, fnargs |-> <<0, 0, 0>>,
                      fnraw |-> NoFnRaw, chain |-> TRUE,
                      prev |-> [tfid |-> 0, args |-> <<0, 0, 0>>,
                                status |-> "none", out |-> NoDeep]]

Init == InitWith(Shapes, Shapes, SUBSET {"y", "u", "w"})

\* t = Class(...): the caller holds the new object, or, when __init__ raised,
\* what it held before. limit bounds the constructor calls of a behaviour.
Construct(limit, kind, apply_keys, obj) ==
    /\ ctor.n < limit
    /\ ctor' = [n |-> ctor.n + 1, kind |-> kind, apply_keys |-> apply_keys,
                status |-> IF obj.kind = kind THEN "ok" ELSE obj.kind]
    /\ tf' = IF obj.kind = kind THEN [obj EXCEPT !.id = ctor.n + 1] ELSE tf
    /\ UNCHANGED <<bufs, arrs, dicts, sample, cur, call>>

\* out = t(input, label, weight) on the caller's sample or on the previous
\* output.
Apply ==
    /\ tf.kind # "none"
    /\ call.n < MaxCalls
    /\ \E a \in {sample, cur} : \E r \in {CallOf(Heap, tf, a)} :
           /\ bufs' = r.h.bufs
           /\ arrs' = r.h.arrs
           /\ dicts' = r.h.dicts
           /\ cur' = IF r.status = "ok" THEN r.ret ELSE cur
           /\ call' = [n |-> call.n + 1, tfid |-> tf.id, kind |-> tf.kind,
                       args |-> a, pre |-> Deep(Heap, a),
                       status |-> r.status, ret |-> r.ret,
                       out |-> IF r.status = "ok" THEN Deep(r.h, r.ret)
                               ELSE NoDeep,
                       fnargs |-> r.fnargs, fnraw |-> r.fnraw,
                       chain |-> /\ call.chain
                                 /\ tf.kind \in Builtins
                                 /\ r.status = "ok"
                                 /\ a = cur,
                       prev |-> [tfid |-> call.tfid, args |-> call.args,
                                 status |-> call.status,
                                 out |-> call.out]]
    /\ UNCHANGED <<sample, tf, ctor>>

(***************************************************************************)
(* Construction parameters.                                                *)
(***************************************************************************)
\* Translate offsets: x is a key of every sample, y of some, z of none.
Offsets == {[k \in {"x"} |-> 2 * Unit],
            [k \in {"x", "y", "z"} |-> IF k = "x" THEN 2 * Unit ELSE 0 - Unit]}

\* Scale factors.
Scales == {[k \in {"x"} |-> (3 * Unit) \div 2],
           [k \in {"x", "y", "z"} |-> 2 * Unit]}

\* Every tuple over names of length 0..maxLen.
Tuples(names, maxLen) == UNION {[1..n -> names] : n \in 0..maxLen}

\* apply_keys handed to the constructors: all tuples, and a menu with every
\* selection and both ways to be invalid.
AllKeys == Tuples({"input", "label", "extra"}, MaxApplyKeys)
KeysMenu == {<<>>, <<"input">>, <<"label">>, <<"label", "input">>,
             <<"input", "extra">>}

\* Crop corners <<xmin, xmax>>: all with coordinates -1..MaxCorner, and a
\* menu of two.
AllCorners ==
    LET R == (0 - 1)..MaxCorner IN {<<<<a, b>>, <<c, d>>>> : a, b, c, d \in R}
CornersMenu == {<<<<0, 0>>, <<1, 2>>>>, <<<<1, 0>>, <<MaxCorner, 1>>>>}

CtorTranslate(limit, offsets) ==
    \E off \in offsets :
        Construct(limit, "Translate", <<>>, TranslateInit(off))

CtorScale(limit, scales) ==
    \E sc \in scales : Construct(limit, "Scale", <<>>, ScaleInit(sc))

CtorNormalize(limit, keys) ==
    \E ak \in keys :
        Construct(limit, "Normalize", ak, NormalizeInit(Unit, 2 * Unit, ak))

CtorLog1p(limit, keys) ==
    \E ak \in keys : Construct(limit, "Log1p", ak, Log1pInit(Unit, ak))

CtorCropData(limit, keys, corners) ==
    \E ak \in keys, c \in corners :
        Construct(limit, "CropData", ak, CropDataInit(c[1], c[2], ak))

CtorSqueezeData(limit, keys) ==
    \E ak \in keys : Construct(limit, "SqueezeData", ak, SqueezeDataInit(ak))

CtorFunctionalTransform(limit, fns) ==
    \E fn \in fns :
        Construct(limit, "FunctionalTransform", <<>>,
                  FunctionalTransformInit(fn))

(***************************************************************************)
(* Spec: the caller constructs one transform and applies it, repeatedly,   *)
(* to its sample or to the previous output.                                *)
(***************************************************************************)
Next ==
    \/ CtorTranslate(1, Offsets)
    \/ CtorScale(1, Scales)
    \/ CtorNormalize(1, KeysMenu)
    \/ CtorLog1p(1, KeysMenu)
    \/ CtorCropData(1, KeysMenu, CornersMenu)
    \/ CtorSqueezeData(1, KeysMenu)
    \/ CtorFunctionalTransform(1, UserFns)
    \/ Apply

Spec == Init /\ [][Next]_vars

(***************************************************************************)
(* SpecChain: a pipeline, the caller constructs transforms one after the   *)
(* other and applies each.                                                 *)
(***************************************************************************)
InitChain ==
    InitWith({<<>>, <<2, 2, 2>>}, {<<2, 2, 2>>}, SUBSET {"y", "u", "w"})

NextChain ==
    \/ CtorTranslate(MaxCtors, {[k \in {"x", "z"} |-> 2 * Unit]})
    \/ CtorScale(MaxCtors, {[k \in {"x", "z"} |-> 2 * Unit]})
    \/ CtorNormalize(MaxCtors, {<<"input">>})
    \/ CtorLog1p(MaxCtors, {<<"label">>})
    \/ CtorCropData(MaxCtors, {<<"input", "label">>}, {<<<<0, 0>>, <<1, 2>>>>})
    \/ CtorSqueezeData(MaxCtors, {<<"input", "label">>})
    \/ CtorFunctionalTransform(MaxCtors, {"addkey", "clear"})
    \/ Apply

SpecChain == InitChain /\ [][NextChain]_vars

(***************************************************************************)
(* SpecCtor: constructor calls with every apply_keys tuple.                *)
(***************************************************************************)
InitCtor == InitWith({<<>>}, {<<>>}, {{}})

NextCtor ==
    \/ CtorNormalize(MaxCtors, AllKeys)
    \/ CtorLog1p(MaxCtors, AllKeys)
    \/ CtorCropData(MaxCtors, AllKeys, CornersMenu)
    \/ CtorSqueezeData(MaxCtors, AllKeys)

SpecCtor == InitCtor /\ [][NextCtor]_vars

(***************************************************************************)
(* SpecCrop: CropData with every pair of corners, on arrays of rank >= 3.  *)
(***************************************************************************)
InitCrop == InitWith({<<2, 2, 2>>}, {<<2, 2, 2>>}, {{}, {"u"}})

NextCrop ==
    \/ CtorCropData(1, {<<"input">>, <<"input", "label">>}, AllCorners)
    \/ Apply

SpecCrop == InitCrop /\ [][NextCrop]_vars

(***************************************************************************)
(* Properties. call describes the latest apply call: its arguments, their  *)
(* contents before it (pre), how it ended, what it returned (ret) and the  *)
(* contents of that on return (out).                                       *)
(***************************************************************************)
\* The mappings (1 input, 2 label) that the apply_keys of the transform held
\* name.
Sel == {i \in {1, 2} :
          (IF i = 1 THEN "input" ELSE "label") \in Range(tf.apply_keys)}

\* The latest call was made on the transform now held.
CallOfHeld == call.n > 0 /\ call.tfid = tf.id

PreKeySets == <<DOMAIN call.pre[1].m, DOMAIN call.pre[2].m,
                DOMAIN call.pre[3].m>>

\* A tensor value with the elementwise operation op applied to every element.
Mapped(v, op) ==
    [shape |-> v.shape,
     data |-> [i \in DOMAIN v.data |-> ElementOp(op, v.data[i])]]

\* Element [c, i, j] (from 0) of a rank-3 tensor value.
Elem(v, c, i, j) == v.data[(c * v.shape[2] + i) * v.shape[3] + j + 1]

\* C1: apply does not mutate what the caller passed in: after the call the
\* caller's input, label and weight mappings have the same keys bound to the
\* same tensor contents as before it.
C1_CallerMappingsUnchanged ==
    call.n > 0 => Deep(Heap, call.args) = call.pre

\* C2: SqueezeData accepts a rank-4 tensor in a selected mapping: when every
\* tensor of the selected mappings has rank 3 or 4 the call returns, and a
\* tensor of shape [B, C, H, W] comes back with shape [B*C, H, W].
C2_SqueezeAcceptsRank4 ==
    (/\ CallOfHeld
     /\ call.kind = "SqueezeData"
     /\ \A i \in Sel : \A k \in DOMAIN call.pre[i].m :
            Len(call.pre[i].m[k].shape) \in {3, 4})
    => /\ call.status = "ok"
       /\ \A i \in Sel : \A k \in DOMAIN call.pre[i].m :
            LET s == call.pre[i].m[k].shape
            IN Len(s) = 4 =>
                 call.out[i].m[k].shape = <<s[1] * s[2], s[3], s[4]>>

\* C3: SqueezeData raises ValueError whenever a tensor of a selected mapping
\* has a rank other than 3 or 4; when it returns, a rank-3 tensor comes back
\* unchanged; and when it raises, the caller's three mappings are as they
\* were before the call.
C3_SqueezeRejectsOtherRanks ==
    (CallOfHeld /\ call.kind = "SqueezeData")
    => /\ (\E i \in Sel : \E k \in DOMAIN call.pre[i].m :
              Len(call.pre[i].m[k].shape) \notin {3, 4})
          => call.status = "ValueError"
       /\ call.status = "ok"
          => \A i \in Sel : \A k \in DOMAIN call.pre[i].m :
                Len(call.pre[i].m[k].shape) = 3
                => call.out[i].m[k] = call.pre[i].m[k]
       /\ call.status # "ok" => Deep(Heap, call.args) = call.pre

C3_Witness ==
    /\ CallOfHeld
    /\ call.kind = "SqueezeData"
    /\ call.status = "ValueError"
    /\ \E i \in Sel : \E k \in DOMAIN call.pre[i].m :
          Len(call.pre[i].m[k].shape) = 2
    /\ \E i \in Sel : \E k \in DOMAIN call.pre[i].m :
          Len(call.pre[i].m[k].shape) = 3

\* C4: constructing Normalize, Log1p, CropData or SqueezeData succeeds if and
\* only if apply_keys is non-empty and each of its elements is "input" or
\* "label"; otherwise it raises ValueError and the caller gets no object.
C4_ConstructorValidatesApplyKeys ==
    (ctor.n > 0 /\ ctor.kind \in {"Normalize", "Log1p", "CropData",
                                  "SqueezeData"})
    => /\ ctor.status = "ok"
          <=> /\ Len(ctor.apply_keys) > 0
              /\ \A i \in 1..Len(ctor.apply_keys) :
                    ctor.apply_keys[i] \in {"input", "label"}
       /\ ctor.status = "ok"
          => /\ tf.id = ctor.n
             /\ tf.kind = ctor.kind
             /\ tf.apply_keys = ctor.apply_keys
       /\ ctor.status # "ok"
          => /\ ctor.status = "ValueError"
             /\ tf.id # ctor.n

C4_Witness ==
    /\ ctor.n = 2
    /\ ctor.kind = "CropData"
    /\ ctor.apply_keys = <<"input", "extra">>
    /\ ctor.status = "ValueError"
    /\ tf.kind = "Normalize"
    /\ tf.apply_keys = <<"label", "label">>

\* C5: Translate returns an input mapping with the keys of the one it was
\* given, each key of the offset configuration bound to original + offset and
\* each other key to its original value (so a configured key that the input
\* lacks is skipped and adds nothing), and the label and weight mappings with
\* unchanged contents.
C5_TranslateResult ==
    (CallOfHeld /\ call.kind = "Translate")
    => /\ call.status = "ok"
       /\ DOMAIN call.out[1].m = DOMAIN call.pre[1].m
       /\ \A k \in DOMAIN call.pre[1].m :
            call.out[1].m[k] =
                IF k \in DOMAIN tf.offset
                THEN Mapped(call.pre[1].m[k], <<"add", tf.offset[k]>>)
                ELSE call.pre[1].m[k]
       /\ call.out[2] = call.pre[2]
       /\ call.out[3] = call.pre[3]

\* What each of Normalize, Log1p, CropData and SqueezeData makes of a tensor
\* value.
Transformed(v) ==
    LET pos == CropPositions(v.shape, tf.xmin, tf.xmax)
    IN CASE tf.kind = "Normalize" ->
              Mapped(v, <<"normalize", tf.mean, tf.std>>)
         [] tf.kind = "Log1p" -> Mapped(v, <<"log1p", tf.lscale>>)
         [] tf.kind = "CropData" ->
              [shape |-> CropShape(v.shape, tf.xmin, tf.xmax),
               data |-> [q \in DOMAIN pos |-> v.data[pos[q]]]]
         [] OTHER ->
              IF Len(v.shape) = 4
              THEN [shape |-> <<v.shape[1] * v.shape[2], v.shape[3],
                                v.shape[4]>>,
                    data |-> v.data]
              ELSE v

C7_FunctionGetsCopies ==
    (call.n > 0 /\ call.kind = "FunctionalTransform")
    => /\ \A i \in 1..3 : /\ call.fnargs[i] \notin Range(call.args)
                          /\ call.fnargs[i] \notin Range(sample)
                          /\ call.fnargs[i] # 0
       /\ Cardinality(Range(call.fnargs)) = 3
       /\ \A i \in 1..2 : call.fnraw[i] = dicts[call.args[i]]
       /\ call.fnraw[3] = IF call.args[3] = 0 THEN NoDict
                          ELSE dicts[call.args[3]]
       /\ Deep(Heap, call.args) = call.pre
       /\ call.status = "ok"
       /\ call.ret = call.fnargs

C7_Witness ==
    /\ call.n > 0
    /\ call.kind = "FunctionalTransform"
    /\ tf.fn = "addkey"
    /\ call.args[3] = 0
    /\ call.fnraw[3] = NoDict
    /\ "z" \in DOMAIN dicts[call.ret[3]]

\* C8: CropData with corners 0 <= x0 <= x1, 0 <= y0 <= y1 returns and
\* replaces a [C, H, W] tensor of a selected mapping by [:, x0:x1, y0:y1]:
\* C channels, bounds beyond H or W clamped to H or W, shape
\* [C, x1-x0, y1-y0] when x1 <= H and y1 <= W, and element [c, i, j] equal to
\* element [c, x0+i, y0+j] of the original.
C8_CropIsSubTensor ==
    (/\ CallOfHeld
     /\ call.kind = "CropData"
     /\ 0 <= tf.xmin[1] /\ tf.xmin[1] <= tf.xmax[1]
     /\ 0 <= tf.xmin[2] /\ tf.xmin[2] <= tf.xmax[2]
     /\ \A i \in Sel : \A k \in DOMAIN call.pre[i].m :
            Len(call.pre[i].m[k].shape) = 3)
    => /\ call.status = "ok"
       /\ \A n \in Sel : \A k \in DOMAIN call.pre[n].m :
            LET v == call.pre[n].m[k]
                o == call.out[n].m[k]
                H == v.shape[2]
                W == v.shape[3]
            IN /\ o.shape = <<v.shape[1],
                              Min(tf.xmax[1], H) - Min(tf.xmin[1], H),
                              Min(tf.xmax[2], W) - Min(tf.xmin[2], W)>>
               /\ (tf.xmax[1] <= H /\ tf.xmax[2] <= W)
                  => o.shape = <<v.shape[1], tf.xmax[1] - tf.xmin[1],
                                 tf.xmax[2] - tf.xmin[2]>>
               /\ Len(o.data) = o.shape[1] * o.shape[2] * o.shape[3]
               /\ \A c \in 0..(o.shape[1] - 1) :
                  \A i \in 0..(o.shape[2] - 1) :
                  \A j \in 0..(o.shape[3] - 1) :
                     Elem(o, c, i, j)
                       = Elem(v, c, tf.xmin[1] + i, tf.xmin[2] + j)

C8_Witness ==
    /\ CallOfHeld
    /\ call.kind = "CropData"
    /\ call.status = "ok"
    /\ tf.xmin = <<1, 0>>
    /\ tf.xmax = <<3, 1>>
    /\ "x" \in DOMAIN call.pre[1].m
    /\ call.pre[1].m["x"].shape = <<2, 2, 2>>
    /\ call.out[1].m["x"].shape = <<2, 1, 1>>
    /\ call.out[1].m["x"].data = <<3 * Unit, 7 * Unit>>

\* C9: a built-in transform that returns, returns mappings with the key sets
\* of the mappings it was given; so after any sequence of built-in transforms
\* that all returned, each fed the previous one's output, the three key sets
\* are those of the initial sample.
C9_KeySetsPreserved ==
    /\ (call.n > 0 /\ call.kind \in Builtins /\ call.status = "ok")
       => KeySets(Heap, call.ret) = PreKeySets
    /\ call.chain => KeySets(Heap, cur) = KeySets(Heap, sample)

C9_Witness ==
    /\ call.n = 2
    /\ call.chain
    /\ call.kind = "Translate"
    /\ call.prev.tfid # call.tfid
    /\ cur[1] # sample[1]
    /\ KeySets(Heap, cur) = <<{"x", "y"}, {"u"}, {"w"}>>

\* C10: applying the same built-in transform again to the same caller-held
\* sample returns equal results.
C10_RepeatedApplyEqual ==
    (/\ call.n >= 2
     /\ call.kind \in Builtins
     /\ call.tfid = call.prev.tfid
     /\ call.args = call.prev.args
     /\ call.args = sample
     /\ call.status = "ok"
     /\ call.prev.status = "ok")
    => call.out = call.prev.out

=============================================================================
